---- MODULE Spec2Model ----
(***************************************************************************)
(* One invocation of manage_databricks_job.py: main() checks the           *)
(* credentials, configures the CLI, and manage_job() loads the job         *)
(* configuration, looks the job up by name and creates, updates or skips   *)
(* it; main() then optionally triggers a run.  Every shell command the     *)
(* script issues is appended to cmds with its exit status, so that the     *)
(* properties below can speak about what was issued, in which order.       *)
(*                                                                         *)
(* The registry is an external collaborator: the exit status and the       *)
(* output of each command are chosen nondeterministically.  Every job the  *)
(* registry lists and every job it creates carries an identifier (a        *)
(* positive integer); output that cannot be parsed as JSON is modelled     *)
(* separately.                                                             *)
(***************************************************************************)
EXTENDS Integers, Sequences, FiniteSets, TLC

\* Largest job identifier the registry hands out, and longest job listing.
MaxJobId == 2
MaxJobs == 2

\* Python's None / a missing key, for identifiers and for strings.
None == 0
NoName == "<absent>"
Unset == "<unset>"
\* exit_status while the process has not terminated.
Running == 0 - 1

JobIds == 1..MaxJobId
Names == {"ingest-daily", "train-weekly"}
EnvValues == {Unset, "", "value"}

\* The file at --config: missing, not JSON, or a mapping whose "name" is
\* absent, empty or a job name.
ConfigFiles ==
    {[kind |-> "missing", name |-> NoName], [kind |-> "invalid", name |-> NoName]}
        \cup {[kind |-> "mapping", name |-> n] : n \in Names \cup {NoName, ""}}

\* One entry of the "jobs" array of `databricks jobs list --output JSON`;
\* settings.name may be absent.  job_id is always there and positive, as the
\* registry assigns it: an entry without one (or with 0) would be taken for
\* an absent job by the truthiness test of manage_job, line 115.
JobRecords == [name : Names \cup {NoName}, job_id : JobIds]
Listings == UNION {[1..n -> JobRecords] : n \in 0..MaxJobs}

\* Exit status and stdout of the list command.
ListOutputs ==
    {[rc |-> 1, out |-> "empty", jobs |-> <<>>],
     [rc |-> 0, out |-> "empty", jobs |-> <<>>],
     [rc |-> 0, out |-> "garbage", jobs |-> <<>>]}
        \cup {[rc |-> 0, out |-> "json", jobs |-> l] : l \in Listings}

\* Exit status and stdout of the create command: {"job_id": N} or text
\* that is not JSON.
CreateOutputs ==
    {[rc |-> 1, job_id |-> None, out |-> "empty"], [rc |-> 0, job_id |-> None, out |-> "garbage"]}
        \cup {[rc |-> 0, job_id |-> i, out |-> "json"] : i \in JobIds}

ExitCodes == {0, 1}

VARIABLES
    pc,                 \* position in main() / manage_job()
    DATABRICKS_HOST,    \* os.environ
    DATABRICKS_TOKEN,
    force_update,       \* args.force_update
    run,                \* args.run
    config_file,        \* the file at args.config
    config_read,        \* load_job_config has tried to open config_file
    job_name,           \* config.get("name")
    jobs,               \* what the list command produced
    existing_job_id,    \* manage_job's local
    job_id,             \* manage_job's return value, main's local
    returned,           \* manage_job has returned to main
    temp_file,          \* temp_job_config.json exists
    exc,                \* exception in flight inside update_job's try
    cmds,               \* shell commands issued so far
    warnings,           \* warnings printed so far
    exit_status         \* process exit status, Running before termination

vars == <<pc, DATABRICKS_HOST, DATABRICKS_TOKEN, force_update, run, config_file,
          config_read, job_name, jobs, existing_job_id, job_id, returned,
          temp_file, exc, cmds, warnings, exit_status>>

inputs == <<DATABRICKS_HOST, DATABRICKS_TOKEN, force_update, run, config_file>>

Cmd(op, id, rc) == [op |-> op, job_id |-> id, rc |-> rc]

\* Python truthiness of a str-or-None and of an int-or-None.
Truthy(s) == s \notin {NoName, Unset, ""}
TruthyId(i) == i # None

\* run_command: check=True raises CalledProcessError on a non-zero exit
\* status, and the handler calls sys.exit(1), which raises SystemExit.
run_command(rc) == IF rc = 0 THEN "returned" ELSE "SystemExit"

\* Which exceptions a handler catches.  SystemExit derives from
\* BaseException, not from Exception: only a bare except catches it.
CatchesLikeException(handler, e) ==
    e # "SystemExit" /\ (handler \in {"bare", "Exception"} \/ handler = e)
Catches(handler, e) ==
    CASE handler = "bare" -> TRUE
      [] handler = "Exception" -> e # "SystemExit"
      [] OTHER -> handler = e

\* sys.exit(code), or an exception nothing catches.
sys_exit(code) == pc' = "exited" /\ exit_status' = code

Init ==
    /\ pc = "main"
    /\ DATABRICKS_HOST \in EnvValues
    /\ DATABRICKS_TOKEN \in EnvValues
    /\ force_update \in BOOLEAN
    /\ run \in BOOLEAN
    /\ config_file \in ConfigFiles
    /\ config_read = FALSE
    /\ job_name = NoName
    /\ jobs = [rc |-> 0, out |-> "empty", jobs |-> <<>>]
    /\ existing_job_id = None
    /\ job_id = None
    /\ returned = FALSE
    /\ temp_file = FALSE
    /\ exc = "none"
    /\ cmds = <<>>
    /\ warnings = {}
    /\ exit_status = Running

\* main, lines 162-165: verify the credentials.
CredentialsMissingBoth(host, token) == ~Truthy(host) /\ ~Truthy(token)
CredentialsMissing(host, token) == ~Truthy(host) \/ ~Truthy(token)

main_check_credentials ==
    /\ pc = "main"
    /\ IF CredentialsMissing(DATABRICKS_HOST, DATABRICKS_TOKEN)
         THEN sys_exit(1)
         ELSE pc' = "main_configure" /\ UNCHANGED exit_status
    /\ UNCHANGED <<inputs, config_read, job_name, jobs, existing_job_id, job_id,
                   returned, temp_file, exc, cmds, warnings>>

\* main, lines 167-173: configure Jobs API 2.1 inside try / bare except.
main_configure ==
    /\ pc = "main_configure"
    /\ \E rc \in ExitCodes :
        /\ cmds' = Append(cmds, Cmd("configure", None, rc))
        /\ IF run_command(rc) = "returned"
             THEN pc' = "load_job_config" /\ UNCHANGED <<warnings, exit_status>>
             ELSE IF Catches("bare", run_command(rc))
                    THEN /\ pc' = "load_job_config"
                         /\ warnings' = warnings \cup {"configure"}
                         /\ UNCHANGED exit_status
                    ELSE sys_exit(1) /\ UNCHANGED warnings
    /\ UNCHANGED <<inputs, config_read, job_name, jobs, existing_job_id, job_id,
                   returned, temp_file, exc>>

\* load_job_config, called first by manage_job: both handlers (file not
\* found, invalid JSON) print a diagnostic and call sys.exit(1).
load_job_config ==
    /\ pc = "load_job_config"
    /\ config_read' = TRUE
    /\ LET e == CASE config_file.kind = "missing" -> "FileNotFoundError"
                  [] config_file.kind = "invalid" -> "JSONDecodeError"
                  [] OTHER -> "none"
       IN IF e = "none"
            THEN pc' = "manage_job_name" /\ UNCHANGED exit_status
            ELSE sys_exit(1)
    /\ UNCHANGED <<inputs, job_name, jobs, existing_job_id, job_id, returned,
                   temp_file, exc, cmds, warnings>>

\* manage_job, lines 104-110: the name is required.
NameMissingOnlyAbsent(name) == name = NoName
NameMissing(name) == ~Truthy(name)

manage_job_name ==
    /\ pc = "manage_job_name"
    /\ job_name' = config_file.name
    /\ IF NameMissing(config_file.name)
         THEN sys_exit(1)
         ELSE pc' = "get_existing_job_id" /\ UNCHANGED exit_status
    /\ UNCHANGED <<inputs, config_read, jobs, existing_job_id, job_id, returned,
                   temp_file, exc, cmds, warnings>>

\* get_existing_job_id, lines 52-56: the identifier of the first listed job
\* whose settings.name equals job_name, None when there is none.
RECURSIVE first_match(_, _, _)
first_match(js, name, i) ==
    IF i > Len(js) THEN None
    ELSE IF js[i].name = name THEN js[i].job_id
    ELSE first_match(js, name, i + 1)

RECURSIVE last_match(_, _, _)
last_match(js, name, i) ==
    IF i < 1 THEN None
    ELSE IF js[i].name = name THEN js[i].job_id
    ELSE last_match(js, name, i - 1)

find_job_last(js, name) == last_match(js, name, Len(js))
find_job(js, name) == first_match(js, name, 1)

\* get_existing_job_id: run the list command and search its output inside
\* try / except Exception.
get_existing_job_id ==
    /\ pc = "get_existing_job_id"
    /\ \E r \in ListOutputs :
        /\ cmds' = Append(cmds, Cmd("list", None, r.rc))
        /\ jobs' = r
        /\ LET e == IF run_command(r.rc) = "SystemExit" THEN "SystemExit"
                    ELSE IF r.out = "garbage" THEN "JSONDecodeError"
                    ELSE "none"
               listed == IF r.out = "json" THEN r.jobs ELSE <<>>
           IN IF e = "none"
                THEN /\ existing_job_id' = find_job(listed, job_name)
                     /\ pc' = "manage_job_branch"
                     /\ UNCHANGED <<warnings, exit_status>>
                ELSE IF Catches("Exception", e)
                       THEN /\ existing_job_id' = None
                            /\ warnings' = warnings \cup {"list"}
                            /\ pc' = "manage_job_branch"
                            /\ UNCHANGED exit_status
                       ELSE /\ sys_exit(1)
                            /\ UNCHANGED <<existing_job_id, warnings>>
    /\ UNCHANGED <<inputs, config_read, job_name, job_id, returned, temp_file, exc>>

\* manage_job, lines 115-125: update, skip or create.
branch_always_update(existing, force) ==
    IF TruthyId(existing) THEN "update" ELSE "create"
branch_force_first(existing, force) ==
    IF force THEN "update" ELSE IF TruthyId(existing) THEN "skip" ELSE "create"
branch(existing, force) ==
    IF TruthyId(existing)
      THEN IF force THEN "update" ELSE "skip"
      ELSE "create"

manage_job_branch ==
    /\ pc = "manage_job_branch"
    /\ LET b == branch(existing_job_id, force_update)
       IN CASE b = "update" -> pc' = "update_job" /\ UNCHANGED <<job_id, returned>>
            [] b = "create" -> pc' = "create_job" /\ UNCHANGED <<job_id, returned>>
            [] b = "skip" -> /\ job_id' = existing_job_id
                             /\ returned' = TRUE
                             /\ pc' = "main_run"
    /\ UNCHANGED <<inputs, config_read, job_name, jobs, existing_job_id, temp_file,
                   exc, cmds, warnings, exit_status>>

\* create_job: a failed command is fatal; output that is not JSON yields None.
create_job ==
    /\ pc = "create_job"
    /\ \E r \in CreateOutputs :
        /\ cmds' = Append(cmds, Cmd("create", None, r.rc))
        /\ IF run_command(r.rc) = "SystemExit"
             THEN sys_exit(1) /\ UNCHANGED <<job_id, returned>>
             ELSE /\ job_id' = IF r.out = "json" THEN r.job_id ELSE None
                  /\ returned' = TRUE
                  /\ pc' = "main_run"
                  /\ UNCHANGED exit_status
    /\ UNCHANGED <<inputs, config_read, job_name, jobs, existing_job_id, temp_file,
                   exc, warnings>>

\* update_job, lines 84-86: write the scratch file.
update_job ==
    /\ pc = "update_job"
    /\ temp_file' = TRUE
    /\ pc' = "update_job_reset"
    /\ UNCHANGED <<inputs, config_read, job_name, jobs, existing_job_id, job_id,
                   returned, exc, cmds, warnings, exit_status>>

\* update_job, lines 88-91: the reset command, inside try.
update_job_reset ==
    /\ pc = "update_job_reset"
    /\ \E rc \in ExitCodes :
        /\ cmds' = Append(cmds, Cmd("reset", existing_job_id, rc))
        /\ exc' = IF run_command(rc) = "SystemExit" THEN "SystemExit" ELSE "none"
    /\ pc' = "update_job_finally"
    /\ UNCHANGED <<inputs, config_read, job_name, jobs, existing_job_id, job_id,
                   returned, temp_file, warnings, exit_status>>

\* update_job, lines 92-96: whether the scratch file is there once the
\* finally clause has run; the clause runs whether or not an exception is in
\* flight.
exists_after_unless_raised(exists, e) == IF e = "none" THEN FALSE ELSE exists
exists_after_finally(exists, e) == IF exists THEN FALSE ELSE exists

update_job_finally ==
    /\ pc = "update_job_finally"
    /\ temp_file' = exists_after_finally(temp_file, exc)
    /\ exc' = "none"
    /\ IF exc = "none"
         THEN /\ job_id' = existing_job_id
              /\ returned' = TRUE
              /\ pc' = "main_run"
              /\ UNCHANGED exit_status
         ELSE sys_exit(1) /\ UNCHANGED <<job_id, returned>>
    /\ UNCHANGED <<inputs, config_read, job_name, jobs, existing_job_id, cmds,
                   warnings>>

\* main, line 188: trigger a run only with --run and a job identifier.
should_run_ignoring_id(r, id) == r
should_run(r, id) == r /\ TruthyId(id)

\* main, lines 188-201: a failed run-now command is fatal; its output is
\* only printed.
main_run ==
    /\ pc = "main_run"
    /\ IF should_run(run, job_id)
         THEN \E rc \in ExitCodes :
                /\ cmds' = Append(cmds, Cmd("run-now", job_id, rc))
                /\ IF run_command(rc) = "SystemExit"
                     THEN sys_exit(1)
                     ELSE pc' = "main_finish" /\ UNCHANGED exit_status
         ELSE pc' = "main_finish" /\ UNCHANGED <<cmds, exit_status>>
    /\ UNCHANGED <<inputs, config_read, job_name, jobs, existing_job_id, job_id,
                   returned, temp_file, exc, warnings>>

\* main, lines 203-205, and the normal end of the process.
main_finish ==
    /\ pc = "main_finish"
    /\ pc' = "done"
    /\ exit_status' = 0
    /\ UNCHANGED <<inputs, config_read, job_name, jobs, existing_job_id, job_id,
                   returned, temp_file, exc, cmds, warnings>>

Next ==
    \/ main_check_credentials
    \/ main_configure
    \/ load_job_config
    \/ manage_job_name
    \/ get_existing_job_id
    \/ manage_job_branch
    \/ create_job
    \/ update_job
    \/ update_job_reset
    \/ update_job_finally
    \/ main_run
    \/ main_finish

Spec == Init /\ [][Next]_vars

TypeOK ==
    /\ pc \in {"main", "main_configure", "load_job_config", "manage_job_name",
               "get_existing_job_id", "manage_job_branch", "create_job",
               "update_job", "update_job_reset", "update_job_finally",
               "main_run", "main_finish", "done", "exited"}
    /\ job_id \in JobIds \cup {None}
    /\ existing_job_id \in JobIds \cup {None}
    /\ exit_status \in {Running, 0, 1}
    /\ (exit_status = Running) = (pc \notin {"done", "exited"})

(***************************************************************************)
(* Vocabulary of the properties, stated over the command log and the       *)
(* inputs rather than over the operators the actions use.                  *)
(***************************************************************************)
Indices(op) == {i \in DOMAIN cmds : cmds[i].op = op}
Count(op) == Cardinality(Indices(op))
Issued(op) == Indices(op) # {}
Failed(op) == \E i \in Indices(op) : cmds[i].rc # 0

\* The jobs the list command reported, and the positions of those named
\* like the configuration.
Listed == IF jobs.out = "json" THEN jobs.jobs ELSE <<>>
ListSucceeded == Issued("list") /\ jobs.rc = 0 /\ jobs.out \in {"json", "empty"}
Matching == {i \in DOMAIN Listed : Listed[i].name = config_file.name}
FirstListedId ==
    Listed[CHOOSE i \in Matching : \A j \in Matching : i <= j].job_id

\* manage_job is over: it returned to main, or the process died in it.
AfterManage == pc \in {"main_run", "main_finish", "done", "exited"}

C3_AbsentJobIsCreatedOnce ==
    (ListSucceeded /\ Matching = {}) =>
        /\ Count("reset") = 0
        /\ Count("create") <= 1
        /\ AfterManage => Count("create") = 1

C3_Witness ==
    /\ pc = "done"
    /\ force_update
    /\ ListSucceeded
    /\ Listed # <<>>
    /\ Matching = {}
    /\ Count("create") = 1

\* C4: when the list command exits non-zero the invocation does not abort:
\* a warning is printed, the job counts as absent and the create command is
\* issued.
C4_ListFailureFallsToCreate ==
    Failed("list") =>
        /\ "list" \in warnings
        /\ existing_job_id = None
        /\ pc = "manage_job_branch" \/ Issued("create")

\* C5: once update_job has written temp_job_config.json, the file is gone
\* when update_job is left, by return or by the process terminating on a
\* failed reset command.
C5_ScratchFileRemoved ==
    /\ AfterManage => ~temp_file
    /\ temp_file => pc \in {"update_job_reset", "update_job_finally"}

C5_Witness ==
    /\ pc = "exited"
    /\ Failed("reset")
    /\ ~temp_file

\* C6: when the loaded configuration has no name or an empty name, the
\* process exits with status 1 and no list, create, reset or run-now command
\* is ever issued.
C6_MissingNameIsFatalBeforeRegistry ==
    (config_file.kind = "mapping" /\ config_file.name \in {NoName, ""}) =>
        /\ \A i \in DOMAIN cmds : cmds[i].op = "configure"
        /\ (config_read /\ pc # "manage_job_name") =>
                pc = "exited" /\ exit_status = 1

C6_Witness ==
    /\ pc = "exited"
    /\ config_read
    /\ config_file.kind = "mapping"
    /\ config_file.name = ""
    /\ Count("configure") = 1

\* The fatal error kinds: missing credentials, a missing or malformed
\* configuration file, a missing job name, and a failed create, reset or
\* run-now command.
FatalErrorOccurred ==
    \/ DATABRICKS_HOST \in {Unset, ""}
    \/ DATABRICKS_TOKEN \in {Unset, ""}
    \/ config_read /\ config_file.kind \in {"missing", "invalid"}
    \/ config_read /\ config_file.name \in {NoName, ""}
    \/ Failed("create") \/ Failed("reset") \/ Failed("run-now")

\* C7: a fatal error ends the invocation at once with a non-zero status and
\* nothing is retried: after a missing or malformed configuration file, or a
\* failed create, reset or run-now command, no further command is issued and
\* no command is issued twice; an invocation without fatal error ends with
\* exit status 0.
C7_NoCommandAfterFatal ==
    /\ \A i \in Indices("create") \cup Indices("reset") \cup Indices("run-now") :
            cmds[i].rc # 0 =>
                /\ i = Len(cmds)
                /\ pc \in {"update_job_finally", "exited"}
    /\ (config_read /\ config_file.kind \in {"missing", "invalid"}) =>
            /\ pc = "exited"
            /\ \A i \in DOMAIN cmds : cmds[i].op = "configure"
    /\ \A i, j \in DOMAIN cmds : cmds[i].op = cmds[j].op => i = j
    /\ pc = "exited" => exit_status = 1

C7_FatalOrExitZero ==
    /\ C7_NoCommandAfterFatal
    /\ (pc \in {"done", "exited"} /\ ~FatalErrorOccurred) => exit_status = 0

\* C8: when the host or the token variable is unset or empty, main exits
\* with status 1 before anything else: no command is issued and the
\* configuration file is never opened.
C8_CredentialsCheckedFirst ==
    (DATABRICKS_HOST \in {Unset, ""} \/ DATABRICKS_TOKEN \in {Unset, ""}) =>
        /\ cmds = <<>>
        /\ ~config_read
        /\ pc # "main" => pc = "exited" /\ exit_status = 1

C8_Witness ==
    /\ pc = "exited"
    /\ DATABRICKS_HOST \notin {Unset, ""}
    /\ DATABRICKS_TOKEN = ""
    /\ exit_status = 1

\* C9: the configure step never ends the invocation: whatever its exit
\* status, main goes on to manage_job from the same state, and a failure
\* only adds a warning.
C9_ConfigureFailureNonFatal ==
    [][pc = "main_configure" =>
        /\ pc' = "load_job_config"
        /\ exit_status' = Running
        /\ cmds'[Len(cmds')].op = "configure"
        /\ (cmds'[Len(cmds')].rc # 0) = ("configure" \in warnings')
        /\ UNCHANGED <<inputs, config_read, job_name, jobs, existing_job_id,
                       job_id, returned, temp_file, exc>>]_vars

C9_Witness ==
    /\ pc = "done"
    /\ Failed("configure")
    /\ "configure" \in warnings
    /\ Issued("create")
    /\ exit_status = 0

\* C10: a run-now command is issued at most once, only with --run, only
\* after manage_job has returned (so after every create or reset command),
\* only for a non-empty identifier, and for the identifier manage_job
\* returned; when create_job returns None no run-now command is issued.
C10_RunNowOnlyForReturnedId ==
    /\ Count("run-now") <= 1
    /\ \A i \in Indices("run-now") :
        /\ run
        /\ returned
        /\ i = Len(cmds)
        /\ job_id # None
        /\ cmds[i].job_id = job_id
        /\ Issued("list")
    /\ (returned /\ Issued("create") /\ job_id = None) => ~Issued("run-now")

C10_Witness ==
    /\ pc = "done"
    /\ run
    /\ Issued("create")
    /\ Count("run-now") = 1
    /\ cmds[Len(cmds)].job_id = job_id

====
